---- MODULE Spec2Model ----
(***************************************************************************)
(* Model of the Group Manager of FaceManagerService (GroupManager class,   *)
(* v2.4) and of the routes that call it.  One user's partition of the      *)
(* document store is modelled: the faceGroups, faces and files             *)
(* collections under users/{userId}.                                       *)
(***************************************************************************)
EXTENDS Integers, Sequences, FiniteSets, TLC

\* ------------------------------------------------------------------ bounds
NumFaces == 3
NumFiles == 3
MaxGroups == 3
MaxBatch == 3
MaxCreate == 2
MaxSteps == 3
MaxTracked == 3

\* ------------------------------------------------------- program constants
BatchSize == 10
ManualFile == 0

Faces == 1..NumFaces
Files == 1..NumFiles
GroupIds == 1..MaxGroups
Interviews == {"X", "Y"}
NoInterview == "none"
Scopes == Interviews \cup {NoInterview}

VARIABLES
  groups,       \* users/{u}/faceGroups: groupId -> group doc (domain = existing docs)
  faceDocs,     \* users/{u}/faces: faceId -> face doc (domain = existing docs)
  files,        \* users/{u}/files: fileId -> file doc
  nextGroupId,  \* ids handed out so far by generateGroupId (time-ordered ids)
  batch,        \* the processFaces call in progress: its locals and loop position
  ret,          \* the list returned by the last completed processFaces call
  processed,    \* history: faces that passed validation in some processFaces call
  hist,         \* history: <<face, match, scope>> for every match of a processed face
  steps,        \* number of loop iterations and manual operations run so far
  scen          \* bookkeeping of the scenario specifications

vars == <<groups, faceDocs, files, nextGroupId, batch, ret,
          processed, hist, steps, scen>>

\* ----------------------------------------------------------- array helpers
Range(s) == {s[i] : i \in DOMAIN s}

Includes(s, x) == x \in Range(s)

ArrayUnion(s, x) == IF Includes(s, x) THEN s ELSE Append(s, x)

RECURSIVE UniqueArray(_)
UniqueArray(s) ==
  IF s = <<>> THEN <<>>
  ELSE LET r == UniqueArray(SubSeq(s, 1, Len(s) - 1))
       IN IF Includes(r, s[Len(s)]) THEN r ELSE Append(r, s[Len(s)])

FilterOut(s, x) == SelectSeq(s, LAMBDA y : y # x)

MinOf(S) == CHOOSE x \in S : \A y \in S : x <= y

RECURSIVE SortedSeq(_)
SortedSeq(S) ==
  IF S = {} THEN <<>> ELSE <<MinOf(S)>> \o SortedSeq(S \ {MinOf(S)})

Put(f, k, v) == [x \in (DOMAIN f) \cup {k} |-> IF x = k THEN v ELSE f[x]]

Drop(f, k) == [x \in (DOMAIN f) \ {k} |-> f[x]]

\* ------------------------------------------------------------ store reads
Store == [groups |-> groups, faceDocs |-> faceDocs, nextGroupId |-> nextGroupId]

\* where('faceIds', 'array-contains-any', slice): documents in document-id order
QueryArrayContainsAny(G, slice) ==
  SelectSeq(SortedSeq(DOMAIN G),
            LAMBDA g : Range(G[g].faceIds) \cap Range(slice) # {})

\* mutant: the interview filter is left out
OtherInterviewIgnored(G, g, interviewId) == FALSE

OtherInterview(G, g, interviewId) ==
  /\ interviewId # NoInterview
  /\ G[g].interviewId # NoInterview
  /\ G[g].interviewId # interviewId

RECURSIVE FindFrom(_, _, _, _, _)
FindFrom(G, faceIds, interviewId, i, found) ==
  IF i > Len(faceIds) THEN found
  ELSE LET last == IF i + BatchSize - 1 < Len(faceIds)
                   THEN i + BatchSize - 1 ELSE Len(faceIds)
           q == QueryArrayContainsAny(G, SubSeq(faceIds, i, last))
           kept == SelectSeq(q, LAMBDA g : /\ ~OtherInterview(G, g, interviewId)
                                           /\ ~Includes(found, g))
       IN FindFrom(G, faceIds, interviewId, i + BatchSize, found \o kept)

\* mutant: only the first slice of the face ids is queried
FindInFirstSlice(G, faceIds, interviewId) ==
  IF Len(faceIds) = 0 THEN <<>>
  ELSE FindFrom(G, SubSeq(faceIds, 1, IF Len(faceIds) < BatchSize THEN Len(faceIds) ELSE BatchSize),
                interviewId, 1, <<>>)

FindGroupsContainingFaces(G, faceIds, interviewId) ==
  IF Len(faceIds) = 0 THEN <<>> ELSE FindFrom(G, faceIds, interviewId, 1, <<>>)

\* ----------------------------------------------------------- store writes
NewGroupDoc(faceIds, fileId, interviewId) ==
  [interviewId |-> interviewId,
   faceIds |-> faceIds,
   leaderFaceId |-> faceIds[1],
   leaderFile |-> fileId,
   fileIds |-> {fileId},
   faceCount |-> Len(faceIds),
   status |-> "unreviewed",
   mergedFrom |-> {}]

\* createGroup: the id it returns is S.nextGroupId
CreateGroup(S, faceIds, fileId, interviewId) ==
  IF Len(faceIds) = 0 THEN S
  ELSE [S EXCEPT !.groups = Put(S.groups, S.nextGroupId,
                                NewGroupDoc(faceIds, fileId, interviewId)),
                 !.nextGroupId = S.nextGroupId + 1]

CreateFaceDocument(S, faceId, groupId, fileId) ==
  [S EXCEPT !.faceDocs = Put(S.faceDocs, faceId,
                             [groupId |-> groupId, fileId |-> fileId])]

\* mutant: the file of the batch is not added to the group's fileIds
AddFaceToGroupKeepingFiles(S, groupId, faceId, fileId) ==
  IF groupId \notin DOMAIN S.groups THEN S
  ELSE LET g == S.groups[groupId] IN
       IF ~Includes(g.faceIds, faceId)
       THEN [S EXCEPT !.groups[groupId] =
               [g EXCEPT !.faceIds = ArrayUnion(g.faceIds, faceId),
                         !.faceCount = Len(g.faceIds) + 1]]
       ELSE S

AddFaceToGroup(S, groupId, faceId, fileId) ==
  IF groupId \notin DOMAIN S.groups THEN S
  ELSE LET g == S.groups[groupId] IN
       IF ~Includes(g.faceIds, faceId)
       THEN [S EXCEPT !.groups[groupId] =
               [g EXCEPT !.faceIds = ArrayUnion(g.faceIds, faceId),
                         !.fileIds = g.fileIds \cup {fileId},
                         !.faceCount = Len(g.faceIds) + 1]]
       ELSE [S EXCEPT !.groups[groupId] =
               [g EXCEPT !.fileIds = g.fileIds \cup {fileId}]]

\* the face-doc updates of a merge: update() only succeeds on an existing doc
RetargetFaceDocs(D, faceIds, primaryGroupId) ==
  [f \in DOMAIN D |-> IF Includes(faceIds, f)
                      THEN [D[f] EXCEPT !.groupId = primaryGroupId]
                      ELSE D[f]]

\* mutant: the secondary group doc is not deleted
MergeGroupsKeepingSecondary(S, primaryGroupId, secondaryGroupId) ==
  IF secondaryGroupId \notin DOMAIN S.groups THEN S
  ELSE IF primaryGroupId \notin DOMAIN S.groups THEN S
  ELSE LET p == S.groups[primaryGroupId]
           s == S.groups[secondaryGroupId]
           mergedFaceIds == UniqueArray(p.faceIds \o s.faceIds)
           updated == [p EXCEPT !.faceIds = mergedFaceIds,
                                !.fileIds = p.fileIds \cup s.fileIds,
                                !.faceCount = Len(mergedFaceIds),
                                !.mergedFrom = p.mergedFrom \cup {secondaryGroupId}]
       IN [S EXCEPT
             !.faceDocs = RetargetFaceDocs(S.faceDocs, s.faceIds, primaryGroupId),
             !.groups = Put(S.groups, primaryGroupId, updated)]

\* mutant: the secondary's files are not carried over
MergeGroupsDroppingFiles(S, primaryGroupId, secondaryGroupId) ==
  IF secondaryGroupId \notin DOMAIN S.groups THEN S
  ELSE IF primaryGroupId \notin DOMAIN S.groups THEN S
  ELSE LET p == S.groups[primaryGroupId]
           s == S.groups[secondaryGroupId]
           mergedFaceIds == UniqueArray(p.faceIds \o s.faceIds)
           updated == [p EXCEPT !.faceIds = mergedFaceIds,
                                !.faceCount = Len(mergedFaceIds),
                                !.mergedFrom = p.mergedFrom \cup {secondaryGroupId}]
       IN [S EXCEPT
             !.faceDocs = RetargetFaceDocs(S.faceDocs, s.faceIds, primaryGroupId),
             !.groups = Drop(Put(S.groups, primaryGroupId, updated), secondaryGroupId)]

MergeGroups(S, primaryGroupId, secondaryGroupId) ==
  IF secondaryGroupId \notin DOMAIN S.groups THEN S
  ELSE IF primaryGroupId \notin DOMAIN S.groups THEN S  \* primaryData undefined: throws
  ELSE LET p == S.groups[primaryGroupId]
           s == S.groups[secondaryGroupId]
           mergedFaceIds == UniqueArray(p.faceIds \o s.faceIds)
           mergedFileIds == p.fileIds \cup s.fileIds
           updated == [p EXCEPT !.faceIds = mergedFaceIds,
                                !.fileIds = mergedFileIds,
                                !.faceCount = Len(mergedFaceIds),
                                !.mergedFrom = p.mergedFrom \cup {secondaryGroupId}]
       IN [S EXCEPT
             !.faceDocs = RetargetFaceDocs(S.faceDocs, s.faceIds, primaryGroupId),
             !.groups = Drop(Put(S.groups, primaryGroupId, updated), secondaryGroupId)]

RECURSIVE MergeAll(_, _, _)
MergeAll(S, found, i) ==
  IF i > Len(found) THEN S
  ELSE MergeAll(MergeGroups(S, found[1], found[i]), found, i + 1)

\* ------------------------------------------------ processFaces, one face
\* the match set the loop body works with (lines 295-303)
ResolveMatches(inp) ==
  IF Len(inp.matchedFaceIds) = 0 THEN inp.aws ELSE inp.matchedFaceIds

\* mutant: the group is created with the face and all its matches
NewGroupMembersWithMatches(faceId, matchedFaceIds) ==
  UniqueArray(<<faceId>> \o matchedFaceIds)

\* the members of a group created for a face (lines 322, 370)
NewGroupMembers(faceId, matchedFaceIds) == <<faceId>>

\* the group the face is put in, given the groups found (0 = a new group)
TargetGroup(S, found) == IF Len(found) = 0 THEN S.nextGroupId ELSE found[1]

\* one iteration of the for loop of processFaces; out.pushed is what the
\* iteration appends to updatedGroups, out.target the groupId it records
ProcessFace(S, fileId, interviewId, inp) ==
  IF ~inp.hasBox THEN [store |-> S, pushed |-> <<>>, skipped |-> TRUE, target |-> 0]
  ELSE
    LET M == ResolveMatches(inp)
        found == IF Len(M) > 0
                 THEN FindGroupsContainingFaces(S.groups, M, interviewId)
                 ELSE <<>>
        target == TargetGroup(S, found)
        S1 == IF Len(found) = 0
              THEN CreateGroup(S, NewGroupMembers(inp.faceId, M), fileId, interviewId)
              ELSE IF Len(found) = 1
              THEN AddFaceToGroup(S, target, inp.faceId, fileId)
              ELSE AddFaceToGroup(MergeAll(S, found, 2), target, inp.faceId, fileId)
        S2 == CreateFaceDocument(S1, inp.faceId, target, fileId)
    IN [store |-> S2,
        pushed |-> IF target \in DOMAIN S2.groups THEN <<target>> ELSE <<>>,
        skipped |-> FALSE,
        target |-> target]

\* ------------------------------------------------------------ inputs
\* Face ids, file ids and interview ids are opaque to the program: a face, a
\* file or an interview that the store, the call in progress and the history
\* hold no trace of is named by the smallest id that is not in use.
KnownFaces ==
  processed \cup DOMAIN faceDocs \cup {h[1] : h \in hist} \cup {h[2] : h \in hist}
  \cup UNION {Range(groups[g].faceIds) \cup {groups[g].leaderFaceId} : g \in DOMAIN groups}
  \cup UNION {DOMAIN files[f].faceGroupMapping : f \in Files}
  \cup (IF batch.active THEN DOMAIN batch.fileUpdates ELSE {})

KnownFiles ==
  (UNION {groups[g].fileIds \cup {groups[g].leaderFile} : g \in DOMAIN groups}
   \cup {faceDocs[f].fileId : f \in DOMAIN faceDocs}
   \cup {f \in Files : DOMAIN files[f].faceGroupMapping # {}}
   \cup (IF batch.active THEN {batch.fileId} ELSE {}))
  \cap Files

KnownInterviews ==
  {groups[g].interviewId : g \in DOMAIN groups} \cup {h[3] : h \in hist}
  \cup (IF batch.active THEN {batch.interviewId} ELSE {})

NameableScopes ==
  {NoInterview} \cup (KnownInterviews \cap Interviews)
  \cup (IF "X" \notin KnownInterviews THEN {"X"}
        ELSE IF "Y" \notin KnownInterviews THEN {"Y"} ELSE {})

Nameable(known, all) ==
  known \cup (IF all \ known = {} THEN {} ELSE {MinOf(all \ known)})

\* a list of ids in which new ids are named in order of occurrence
RECURSIVE CanonicalLists(_, _, _)
CanonicalLists(known, all, n) ==
  IF n = 0 THEN {<<>>}
  ELSE UNION {{<<x>> \o rest : rest \in CanonicalLists(known \cup {x}, all, n - 1)} :
                x \in Nameable(known, all)}

\* the faces array of a processFaces call, one element: a face without a
\* usable bounding box, a face with supplied matches, or a face without
\* supplied matches and what SearchFaces answers for it (never the face itself)
MatchSets(known) ==
  {M \in SUBSET Faces : \A x \in M \ known : \A y \in Faces \ known : y < x => y \in M}

FaceInputs(known, faceIds) ==
  {[faceId |-> f, hasBox |-> FALSE, matchedFaceIds |-> <<>>, aws |-> <<>>] : f \in faceIds}
  \cup
  UNION {{[faceId |-> f, hasBox |-> TRUE, matchedFaceIds |-> SortedSeq(M), aws |-> <<>>] :
            M \in MatchSets(known \cup {f}) \ {{}}} : f \in faceIds}
  \cup
  UNION {{[faceId |-> f, hasBox |-> TRUE, matchedFaceIds |-> <<>>, aws |-> SortedSeq(M \ {f})] :
            M \in MatchSets(known \cup {f})} : f \in faceIds}

\* what the file doc holds when processFaces reads it, and what the probe says;
\* the file doc is owned by the uploader
Sources == {"absent", "nourl", "unreachable", "ok"}

Idle == [active |-> FALSE]

\* ------------------------------------------------------------ initial state
InitStore ==
  /\ groups = <<>>
  /\ faceDocs = <<>>
  /\ files = [f \in Files |-> [faceGroupMapping |-> <<>>]]
  /\ nextGroupId = 1
  /\ batch = Idle
  /\ ret = <<>>
  /\ processed = {}
  /\ hist = {}
  /\ steps = 0

Init == InitStore /\ scen = "run"

\* ------------------------------------------------------------ processFaces
\* source validation (lines 204-229): a failed validation returns []
\* mutant: the HEAD probe of the image URL is left out
SourceAcceptedUnprobed(source) == source \in {"ok", "unreachable"}

\* file doc exists, has an image URL, and the probe answered 2xx
SourceAccepted(source) == source = "ok"

BeginBatch(fileId, interviewId, source) ==
  /\ ~batch.active
  /\ IF SourceAccepted(source)
     THEN batch' = [active |-> TRUE, fileId |-> fileId, interviewId |-> interviewId,
                    n |-> 0, updatedGroups |-> <<>>, fileUpdates |-> <<>>]
     ELSE batch' = Idle
  /\ ret' = <<>>
  /\ UNCHANGED <<groups, faceDocs, files, nextGroupId, processed, hist, steps>>

StartBatch ==
  \E fileId \in Nameable(KnownFiles, Files), interviewId \in NameableScopes,
     source \in Sources :
    BeginBatch(fileId, interviewId, source)

\* one iteration of the loop over faces (lines 255-379)
ProcessFaceStep(inp) ==
  /\ batch.active
  /\ batch.n < MaxBatch
  /\ LET out == ProcessFace(Store, batch.fileId, batch.interviewId, inp) IN
       /\ out.store.nextGroupId <= MaxGroups + 1
       /\ groups' = out.store.groups
       /\ faceDocs' = out.store.faceDocs
       /\ nextGroupId' = out.store.nextGroupId
       /\ batch' = [batch EXCEPT
                      !.n = @ + 1,
                      !.updatedGroups = @ \o out.pushed,
                      !.fileUpdates = IF out.skipped THEN @
                                      ELSE Put(@, inp.faceId, out.target)]
       /\ processed' = IF out.skipped THEN processed ELSE processed \cup {inp.faceId}
  /\ steps' = steps + 1
  /\ UNCHANGED <<files, ret>>

ProcessNextFace ==
  /\ steps < MaxSteps
  /\ \E inp \in FaceInputs(KnownFaces, Nameable(KnownFaces, Faces)) : ProcessFaceStep(inp)
  /\ UNCHANGED hist

\* the same iteration, with the face and its match set written to the history
ProcessTrackedFace ==
  /\ steps < MaxTracked
  /\ \E inp \in FaceInputs(KnownFaces, Nameable(KnownFaces, Faces)) :
       /\ ProcessFaceStep(inp)
       /\ hist' = IF ~inp.hasBox THEN hist
                  ELSE hist \cup {<<inp.faceId, m, batch.interviewId>> :
                                    m \in Range(ResolveMatches(inp)) \cup {inp.faceId}}

\* set(..., {merge: true}) of the file doc: entries of the map are merged
UpdateFileWithGroupIds(F, fileId, groupMapping) ==
  [F EXCEPT ![fileId].faceGroupMapping =
     [f \in (DOMAIN @) \cup (DOMAIN groupMapping) |->
        IF f \in DOMAIN groupMapping THEN groupMapping[f] ELSE @[f]]]

\* the end of processFaces (lines 381-409)
FinishBatch ==
  /\ batch.active
  /\ batch.n >= 1
  /\ files' = IF DOMAIN batch.fileUpdates # {}
              THEN UpdateFileWithGroupIds(files, batch.fileId, batch.fileUpdates)
              ELSE files
  /\ ret' = batch.updatedGroups
  /\ batch' = Idle
  /\ UNCHANGED <<groups, faceDocs, nextGroupId, processed, hist, steps>>

\* ------------------------------------------------------- manual operations
\* fileId is what the route passes on: the caller's fileId or 'manual'
AddFaceToExistingGroup(S, groupId, faceId, fileId) ==
  IF groupId \notin DOMAIN S.groups THEN S
  ELSE LET g == S.groups[groupId] IN
       IF Includes(g.faceIds, faceId) THEN S
       ELSE LET updatedFaceIds == Append(g.faceIds, faceId) IN
            [S EXCEPT
               !.faceDocs = Put(S.faceDocs, faceId,
                                [groupId |-> groupId, fileId |-> fileId]),
               !.groups[groupId] = [g EXCEPT !.faceIds = updatedFaceIds,
                                             !.faceCount = Len(updatedFaceIds)]]

\* the leader and its cached file after a removal (lines 799-819); D is the
\* faces collection after the removed face's doc was deleted
LeaderAfterRemoval(D, g, faceId, updatedFaceIds) ==
  IF g.leaderFaceId = faceId /\ Len(updatedFaceIds) > 0
  THEN [leaderFaceId |-> updatedFaceIds[1],
        leaderFile |-> IF updatedFaceIds[1] \in DOMAIN D
                       THEN D[updatedFaceIds[1]].fileId
                       ELSE g.leaderFile]
  ELSE [leaderFaceId |-> g.leaderFaceId, leaderFile |-> g.leaderFile]

\* mutant: the face doc of the removed face is kept
FaceDocsKept(D, faceId) == D

\* the faces collection after removeFaceFromGroup (lines 782-786)
FaceDocsAfterRemoval(D, faceId) == Drop(D, faceId)

\* mutant: a group that loses its last face is deleted
RemoveFaceDroppingEmptyGroup(S, groupId, faceId) ==
  IF groupId \notin DOMAIN S.groups THEN S
  ELSE LET g == S.groups[groupId]
           updatedFaceIds == FilterOut(g.faceIds, faceId)
       IN IF Len(updatedFaceIds) = 0
          THEN [S EXCEPT !.faceDocs = Drop(S.faceDocs, faceId),
                         !.groups = Drop(S.groups, groupId)]
          ELSE [S EXCEPT !.faceDocs = Drop(S.faceDocs, faceId),
                         !.groups[groupId] = [g EXCEPT !.faceIds = updatedFaceIds,
                                                       !.faceCount = Len(updatedFaceIds)]]

RemoveFaceFromGroup(S, groupId, faceId) ==
  IF groupId \notin DOMAIN S.groups THEN S
  ELSE LET g == S.groups[groupId]
           updatedFaceIds == FilterOut(g.faceIds, faceId)
           D == FaceDocsAfterRemoval(S.faceDocs, faceId)
           leader == LeaderAfterRemoval(D, g, faceId, updatedFaceIds)
       IN [S EXCEPT
             !.faceDocs = D,
             !.groups[groupId] = [g EXCEPT !.faceIds = updatedFaceIds,
                                           !.faceCount = Len(updatedFaceIds),
                                           !.leaderFaceId = leader.leaderFaceId,
                                           !.leaderFile = leader.leaderFile]]

\* faceIds and fileIds: the faceId and the fileId of each element of the
\* request's faces array, fileId = ManualFile where the element has none
CreateGroupWithFaces(S, faceIds, faceFileIds) ==
  LET fileIds == UniqueArray(SelectSeq(faceFileIds, LAMBDA x : x # ManualFile))
  IN [S EXCEPT
        !.groups = Put(S.groups, S.nextGroupId,
                       [interviewId |-> NoInterview,
                        faceIds |-> faceIds,
                        leaderFaceId |-> faceIds[1],
                        leaderFile |-> IF Len(fileIds) > 0 THEN fileIds[1] ELSE ManualFile,
                        fileIds |-> IF Len(fileIds) > 0 THEN Range(fileIds) ELSE {ManualFile},
                        faceCount |-> Len(faceIds),
                        status |-> "unreviewed",
                        mergedFrom |-> {}]),
        !.nextGroupId = S.nextGroupId + 1]

DeleteGroup(S, groupId) ==
  IF groupId \notin DOMAIN S.groups THEN S
  ELSE [S EXCEPT !.groups = Drop(S.groups, groupId)]

\* POST /groups/:userId/merge: answers success with the first id; the store
\* is not read and not written
MergeGroupsRoute(S, groupIds) ==
  IF Len(groupIds) < 2
  THEN [store |-> S, success |-> FALSE, groupId |-> 0]
  ELSE [store |-> S, success |-> TRUE, groupId |-> groupIds[1]]

\* POST /groups/:groupId/faces: the boolean addFaceToExistingGroup returns is
\* not looked at
AddFaceRoute(S, groupId, faceId, fileId) ==
  [store |-> AddFaceToExistingGroup(S, groupId, faceId, fileId), success |-> TRUE]

\* DELETE /groups/:groupId/faces/:faceId: success is what removeFaceFromGroup returns
RemoveFaceRoute(S, groupId, faceId) ==
  [store |-> RemoveFaceFromGroup(S, groupId, faceId),
   success |-> groupId \in DOMAIN S.groups]

\* DELETE /groups/:groupId: success is what deleteGroup returns
DeleteGroupRoute(S, groupId) ==
  [store |-> DeleteGroup(S, groupId), success |-> groupId \in DOMAIN S.groups]

\* a manual operation runs between two processFaces calls and takes the store to T
Manual(T) ==
  /\ ~batch.active
  /\ steps < MaxSteps
  /\ steps' = steps + 1
  /\ groups' = T.groups
  /\ faceDocs' = T.faceDocs
  /\ nextGroupId' = T.nextGroupId
  /\ ret' = <<>>
  /\ UNCHANGED <<files, batch, processed, hist>>

OptionalFiles == Nameable(KnownFiles \cup {ManualFile}, Files \cup {ManualFile})

DoAddFace ==
  \E g \in GroupIds, f \in Nameable(KnownFaces, Faces), fileId \in OptionalFiles :
    Manual(AddFaceToExistingGroup(Store, g, f, fileId))

DoRemoveFace ==
  \E g \in GroupIds, f \in Nameable(KnownFaces, Faces) :
    Manual(RemoveFaceFromGroup(Store, g, f))

DoCreateGroup ==
  /\ nextGroupId <= MaxGroups
  /\ \E n \in 1..MaxCreate :
       \E faceIds \in CanonicalLists(KnownFaces, Faces, n),
          faceFileIds \in CanonicalLists(KnownFiles \cup {ManualFile},
                                         Files \cup {ManualFile}, n) :
         Manual(CreateGroupWithFaces(Store, faceIds, faceFileIds))

DoDeleteGroup ==
  \E g \in GroupIds : Manual(DeleteGroup(Store, g))

\* the merge route writes nothing; it is not counted in steps
DoMergeGroups ==
  /\ ~batch.active
  /\ \E g1 \in GroupIds : \E g2 \in GroupIds \ {g1} :
       LET out == MergeGroupsRoute(Store, <<g1, g2>>) IN
         /\ groups' = out.store.groups
         /\ faceDocs' = out.store.faceDocs
         /\ nextGroupId' = out.store.nextGroupId
  /\ ret' = <<>>
  /\ UNCHANGED <<files, batch, processed, hist, steps>>

\* ------------------------------------------------------------ specifications
\* any sequential run of processFaces and the manual operations
Next ==
  \/ StartBatch /\ UNCHANGED scen
  \/ ProcessNextFace /\ UNCHANGED scen
  \/ FinishBatch /\ UNCHANGED scen
  \/ DoAddFace /\ UNCHANGED scen
  \/ DoRemoveFace /\ UNCHANGED scen
  \/ DoCreateGroup /\ UNCHANGED scen
  \/ DoDeleteGroup /\ UNCHANGED scen
  \/ DoMergeGroups /\ UNCHANGED scen

Spec == Init /\ [][Next]_vars

\* any sequence of processFaces calls, with the history of the match sets
NextTracked ==
  \/ StartBatch /\ UNCHANGED scen
  \/ ProcessTrackedFace /\ UNCHANGED scen
  \/ FinishBatch /\ UNCHANGED scen

SpecTracked == Init /\ [][NextTracked]_vars

\* the transitive scenario: faces 1..ChainLen in order, the first without
\* matches, each next one matching its predecessor, in batches of any length,
\* each batch from a file of its own or from a file used before
ChainLen == 4

InitChain == InitStore /\ scen = [pos |-> 0, files |-> {}, scope |-> "unset"]

ChainScopes == IF scen.scope = "unset" THEN NameableScopes ELSE {scen.scope}

ChainBegin ==
  /\ scen.pos < ChainLen
  /\ \E fileId \in Nameable(KnownFiles, Files), interviewId \in ChainScopes,
        source \in Sources :
       /\ BeginBatch(fileId, interviewId, source)
       /\ scen' = [scen EXCEPT !.scope = interviewId]

ChainInputs ==
  IF scen.pos = 0
  THEN {[faceId |-> 1, hasBox |-> TRUE, matchedFaceIds |-> <<>>, aws |-> <<>>]}
  ELSE {[faceId |-> scen.pos + 1, hasBox |-> TRUE,
         matchedFaceIds |-> <<scen.pos>>, aws |-> a] : a \in {<<>>, <<1>>}}

ChainFace ==
  /\ scen.pos < ChainLen
  /\ \E inp \in ChainInputs : ProcessFaceStep(inp)
  /\ scen' = [scen EXCEPT !.pos = @ + 1, !.files = @ \cup {batch.fileId}]
  /\ UNCHANGED hist

ChainFinish == FinishBatch /\ UNCHANGED scen

NextChain == ChainBegin \/ ChainFace \/ ChainFinish

SpecChain == InitChain /\ [][NextChain]_vars

\* processFaces called twice with the same arguments: the faces of the first
\* call are recorded and replayed, with the same SearchFaces answers
InitTwice == InitStore /\ scen = [phase |-> "first", faces |-> <<>>, pos |-> 1]

Observable(S) ==
  [groups |-> [g \in DOMAIN S.groups |->
                 [faceIds |-> S.groups[g].faceIds, faceCount |-> S.groups[g].faceCount]],
   faceDocs |-> [f \in DOMAIN S.faceDocs |-> S.faceDocs[f].groupId]]

TwiceBegin ==
  /\ scen.phase = "first"
  /\ \E fileId \in Nameable(KnownFiles, Files), interviewId \in NameableScopes :
       BeginBatch(fileId, interviewId, "ok")
  /\ UNCHANGED scen

TwiceFace ==
  /\ scen.phase = "first"
  /\ \E inp \in FaceInputs(KnownFaces \cup {f.faceId : f \in Range(scen.faces)},
                           Nameable(KnownFaces \cup {f.faceId : f \in Range(scen.faces)}, Faces)) :
       /\ ProcessFaceStep(inp)
       /\ scen' = [scen EXCEPT !.faces = Append(@, inp)]
  /\ UNCHANGED hist

TwiceFinish ==
  /\ scen.phase = "first"
  /\ FinishBatch
  /\ scen' = [phase |-> "between", faces |-> scen.faces, pos |-> 1,
              fileId |-> batch.fileId, interviewId |-> batch.interviewId,
              after |-> Observable(Store)]

TwiceBeginAgain ==
  /\ scen.phase = "between"
  /\ BeginBatch(scen.fileId, scen.interviewId, "ok")
  /\ scen' = [scen EXCEPT !.phase = "second"]

TwiceReplay ==
  /\ scen.phase = "second"
  /\ scen.pos <= Len(scen.faces)
  /\ ProcessFaceStep(scen.faces[scen.pos])
  /\ scen' = [scen EXCEPT !.pos = @ + 1]
  /\ UNCHANGED hist

TwiceFinishAgain ==
  /\ scen.phase = "second"
  /\ scen.pos > Len(scen.faces)
  /\ FinishBatch
  /\ scen' = [scen EXCEPT !.phase = "done"]

NextTwice ==
  \/ TwiceBegin
  \/ TwiceFace
  \/ TwiceFinish
  \/ TwiceBeginAgain
  \/ TwiceReplay
  \/ TwiceFinishAgain

SpecTwice == InitTwice /\ [][NextTwice]_vars

\* ------------------------------------------------- PUT /groups/:groupId/name
PersonNames == {"P", "Q"}

\* groupRef.update({personName, groupName}): fails on a group doc that does
\* not exist (the route answers 500), else sets the two fields
RenameGroup(S, groupId, personName) ==
  IF groupId \notin DOMAIN S.groups THEN S
  ELSE [S EXCEPT !.groups[groupId] =
          [k \in DOMAIN @ \cup {"personName", "groupName"} |->
             IF k \in {"personName", "groupName"} THEN personName ELSE @[k]]]

DoRename ==
  \E g \in GroupIds, personName \in PersonNames :
    Manual(RenameGroup(Store, g, personName))

\* processFaces, createGroupWithFaces and the rename route
NextStatus ==
  \/ StartBatch /\ UNCHANGED scen
  \/ ProcessNextFace /\ UNCHANGED scen
  \/ FinishBatch /\ UNCHANGED scen
  \/ DoCreateGroup /\ UNCHANGED scen
  \/ DoRename /\ UNCHANGED scen

SpecStatus == Init /\ [][NextStatus]_vars

\* ------------------------------------------------- several users
\* In SpecUsers the variables groups, faceDocs, files and nextGroupId are
\* keyed by user: groups[u] is the collection users/u/faceGroups, faceDocs[u]
\* is users/u/faces, files[u] is users/u/files.
MaxUserSteps == 4
NumUserFaces == 2
Users == {"test", "fixed", "other"}
UserFaces == 1..NumUserFaces
UserFile == 1

\* the user id written into the reset route
HardCodedTestUser == "fixed"

\* process.env.TEST_USER_ID: one of the users, or not set
TestUserIds == {"test", "fixed", "unset"}

\* mutant: every document path is built under one user
SharedPath(userId) == HardCodedTestUser

\* db.collection('users').doc(userId)
UserPath(userId) == userId

AtUser(userId) ==
  [groups |-> groups[UserPath(userId)],
   faceDocs |-> faceDocs[UserPath(userId)],
   nextGroupId |-> nextGroupId[UserPath(userId)]]

\* clearAllGroups: a batch delete of every doc of the user's faceGroups
ClearAllGroups(S) ==
  [store |-> [S EXCEPT !.groups = <<>>], deleted |-> Cardinality(DOMAIN S.groups)]

\* DELETE /test/reset/:userId
ResetRoute(S, userId, testUserId) ==
  IF userId # HardCodedTestUser /\ userId # testUserId
  THEN [store |-> S, status |-> 403, deletedCount |-> 0]
  ELSE [store |-> ClearAllGroups(S).store, status |-> 200,
        deletedCount |-> ClearAllGroups(S).deleted]

InitUsers ==
  /\ groups = [u \in Users |-> <<>>]
  /\ faceDocs = [u \in Users |-> <<>>]
  /\ files = [u \in Users |-> [f \in {UserFile} |-> [faceGroupMapping |-> <<>>]]]
  /\ nextGroupId = [u \in Users |-> 1]
  /\ batch = Idle
  /\ ret = <<>>
  /\ processed = {}
  /\ hist = {}
  /\ steps = 0
  /\ \E testUserId \in TestUserIds :
       scen = [env |-> testUserId, caller |-> "none", op |-> "none",
               status |-> 0, deletedCount |-> 0]

\* a request of user userId takes the user's store to T and the user's files to F
UserRequest(userId, op, T, F, status, deletedCount) ==
  /\ steps < MaxUserSteps
  /\ steps' = steps + 1
  /\ T.nextGroupId <= MaxGroups
  /\ groups' = [groups EXCEPT ![UserPath(userId)] = T.groups]
  /\ faceDocs' = [faceDocs EXCEPT ![UserPath(userId)] = T.faceDocs]
  /\ nextGroupId' = [nextGroupId EXCEPT ![UserPath(userId)] = T.nextGroupId]
  /\ files' = [files EXCEPT ![UserPath(userId)] = F]
  /\ scen' = [scen EXCEPT !.caller = userId, !.op = op, !.status = status,
                          !.deletedCount = deletedCount]
  /\ UNCHANGED <<batch, ret, processed, hist>>

\* processFaces with one face in the faces array
UserProcessFaces ==
  \E userId \in Users, inp \in FaceInputs(UserFaces, UserFaces) :
    LET out == ProcessFace(AtUser(userId), UserFile, NoInterview, inp)
        F == files[UserPath(userId)]
    IN UserRequest(userId, "process", out.store,
                   IF out.skipped THEN F
                   ELSE UpdateFileWithGroupIds(F, UserFile, Put(<<>>, inp.faceId, out.target)),
                   200, 0)

UserAddFace ==
  \E userId \in Users, g \in GroupIds, f \in UserFaces :
    UserRequest(userId, "add", AddFaceToExistingGroup(AtUser(userId), g, f, ManualFile),
                files[UserPath(userId)], 200, 0)

UserRemoveFace ==
  \E userId \in Users, g \in GroupIds, f \in UserFaces :
    UserRequest(userId, "remove", RemoveFaceFromGroup(AtUser(userId), g, f),
                files[UserPath(userId)], 200, 0)

UserCreateGroup ==
  \E userId \in Users, f \in UserFaces :
    UserRequest(userId, "create", CreateGroupWithFaces(AtUser(userId), <<f>>, <<ManualFile>>),
                files[UserPath(userId)], 200, 0)

UserDeleteGroup ==
  \E userId \in Users, g \in GroupIds :
    UserRequest(userId, "delete", DeleteGroup(AtUser(userId), g),
                files[UserPath(userId)], 200, 0)

UserMergeGroups ==
  \E userId \in Users :
    UserRequest(userId, "merge", MergeGroupsRoute(AtUser(userId), <<1, 2>>).store,
                files[UserPath(userId)], 200, 0)

UserReset ==
  \E userId \in Users :
    LET out == ResetRoute(AtUser(userId), userId, scen.env) IN
      UserRequest(userId, "reset", out.store, files[UserPath(userId)],
                  out.status, out.deletedCount)

NextUsers ==
  \/ UserProcessFaces
  \/ UserAddFace
  \/ UserRemoveFace
  \/ UserCreateGroup
  \/ UserDeleteGroup
  \/ UserMergeGroups
  \/ UserReset

SpecUsers == InitUsers /\ [][NextUsers]_vars

\* ------------------------------ processFaces, single store reads and writes
\* Two processFaces calls of one user, each with one face, every await of a
\* store read or write a step of its own. scen.procs[p] holds the locals of
\* call p. The store is first built by up to MaxSetup sequential calls
\* (face k of file k); the two calls carry the next two faces, both of file
\* RaceFile; a later sequential call carries face LaterFaceId.
MaxSetup == 2
RaceFile == MaxSetup + 1
LaterFaceId == MaxSetup + 3
Procs == {1, 2}
RaceFaces == 1..(MaxSetup + 2)

ProcFace(p) == MaxSetup + p

IdleProc ==
  [pc |-> "idle", faceId |-> 0, matches |-> <<>>, found |-> <<>>, target |-> 0,
   i |-> 0, got |-> {}, pd |-> <<>>, sd |-> <<>>, pending |-> {},
   len |-> 0, incl |-> FALSE, pushed |-> <<>>]

NewProc(faceId, M) ==
  [IdleProc EXCEPT !.pc = "find", !.faceId = faceId, !.matches = SortedSeq(M)]

Terminal == {"idle", "done", "failed", "aborted"}

\* doc.get(): <<>> for a doc that does not exist, else <<data>>
Snapshot(G, groupId) == IF groupId \in DOMAIN G THEN <<G[groupId]>> ELSE <<>>

\* mutant: the secondary group doc is deleted before the face docs and the
\* primary group doc are written
MergeOrderDeleteFirst == <<"merge_delete", "merge_faces", "merge_primary">>

\* the writes of mergeGroups in program order (lines 679-700)
MergeOrder == <<"merge_faces", "merge_primary", "merge_delete">>

StageAfter(stage) ==
  LET k == CHOOSE j \in 1..3 : MergeOrder[j] = stage
  IN IF k = 3 THEN "merge_next" ELSE MergeOrder[k + 1]

InitRace ==
  /\ InitStore
  /\ scen = [phase |-> "setup", n |-> 0, procs |-> [p \in Procs |-> IdleProc],
             merged |-> {}, later |-> {}, rejected |-> {}]

SuppliedInput(faceId, M) ==
  [faceId |-> faceId, hasBox |-> TRUE, matchedFaceIds |-> SortedSeq(M), aws |-> <<>>]

\* a whole processFaces call with one face, run alone
SequentialCall(faceId, fileId, M) ==
  LET out == ProcessFace(Store, fileId, NoInterview, SuppliedInput(faceId, M)) IN
    /\ groups' = out.store.groups
    /\ faceDocs' = out.store.faceDocs
    /\ nextGroupId' = out.store.nextGroupId
    /\ files' = UpdateFileWithGroupIds(files, fileId, Put(<<>>, faceId, out.target))
    /\ ret' = out.pushed
    /\ UNCHANGED <<batch, processed, hist, steps>>

SetupFace ==
  /\ scen.phase = "setup"
  /\ scen.n < MaxSetup
  /\ \E M \in SUBSET ((1..MaxSetup) \ {scen.n + 1}) :
       SequentialCall(scen.n + 1, scen.n + 1, M)
  /\ scen' = [scen EXCEPT !.n = @ + 1]

StartRace ==
  /\ scen.phase = "setup"
  /\ \E M1 \in SUBSET (RaceFaces \ {ProcFace(1)}), M2 \in SUBSET (RaceFaces \ {ProcFace(2)}) :
       scen' = [scen EXCEPT !.phase = "race",
                            !.procs = [p \in Procs |->
                                         NewProc(ProcFace(p), IF p = 1 THEN M1 ELSE M2)]]
  /\ UNCHANGED <<groups, faceDocs, files, nextGroupId, batch, ret, processed, hist, steps>>

StartOne ==
  /\ scen.phase = "setup"
  /\ \E M1 \in SUBSET (RaceFaces \ {ProcFace(1)}) :
       scen' = [scen EXCEPT !.phase = "race", !.procs[1] = NewProc(ProcFace(1), M1)]
  /\ UNCHANGED <<groups, faceDocs, files, nextGroupId, batch, ret, processed, hist, steps>>

ReadOnly == UNCHANGED <<groups, faceDocs, files, nextGroupId, batch, ret, processed, hist, steps>>

GroupsOnly == UNCHANGED <<faceDocs, files, nextGroupId, batch, ret, processed, hist, steps>>

\* findGroupsContainingFaces: one query (the matches fit one slice)
PFind(p) ==
  LET r == scen.procs[p]
      found == IF Len(r.matches) > 0
               THEN FindGroupsContainingFaces(groups, r.matches, NoInterview)
               ELSE <<>>
  IN /\ r.pc = "find"
     /\ scen' = [scen EXCEPT !.procs[p] =
                   [r EXCEPT !.found = found,
                             !.target = IF Len(found) = 0 THEN 0 ELSE found[1],
                             !.i = IF Len(found) > 1 THEN 2 ELSE 0,
                             !.pc = IF Len(found) = 0 THEN "create"
                                    ELSE IF Len(found) = 1 THEN "add_get"
                                    ELSE "merge_get"]]
     /\ ReadOnly

\* createGroup: groupRef.set
PCreate(p) ==
  LET r == scen.procs[p]
      T == CreateGroup(Store, NewGroupMembers(r.faceId, r.matches), RaceFile, NoInterview)
  IN /\ r.pc = "create"
     /\ groups' = T.groups
     /\ nextGroupId' = T.nextGroupId
     /\ scen' = [scen EXCEPT !.procs[p] = [r EXCEPT !.target = nextGroupId, !.pc = "facedoc"]]
     /\ UNCHANGED <<faceDocs, files, batch, ret, processed, hist, steps>>

\* after both reads of Promise.all (lines 661-672): return when the secondary
\* does not exist; primaryData.faceIds throws when the primary does not exist
AfterReads(r) ==
  IF r.got # {"p", "s"} THEN r
  ELSE IF r.sd = <<>> THEN [r EXCEPT !.pc = "merge_next"]
  ELSE IF r.pd = <<>> THEN [r EXCEPT !.pc = "failed"]
  ELSE [r EXCEPT !.pc = MergeOrder[1], !.pending = Range(r.sd[1].faceIds)]

PMergeGetPrimary(p) ==
  LET r == scen.procs[p] IN
    /\ r.pc = "merge_get"
    /\ "p" \notin r.got
    /\ scen' = [scen EXCEPT !.procs[p] =
                  AfterReads([r EXCEPT !.got = @ \cup {"p"},
                                       !.pd = Snapshot(groups, r.found[1])])]
    /\ ReadOnly

PMergeGetSecondary(p) ==
  LET r == scen.procs[p] IN
    /\ r.pc = "merge_get"
    /\ "s" \notin r.got
    /\ scen' = [scen EXCEPT !.procs[p] =
                  AfterReads([r EXCEPT !.got = @ \cup {"s"},
                                       !.sd = Snapshot(groups, r.found[r.i])])]
    /\ ReadOnly

\* one face-doc update of the merge, or Promise.all resolving when none is left
PMergeFace(p) ==
  LET r == scen.procs[p] IN
    /\ r.pc = "merge_faces"
    /\ IF r.pending = {}
       THEN /\ scen' = [scen EXCEPT !.procs[p] = [r EXCEPT !.pc = StageAfter("merge_faces")]]
            /\ UNCHANGED faceDocs
       ELSE \E f \in r.pending :
              /\ faceDocs' = RetargetFaceDocs(faceDocs, <<f>>, r.found[1])
              /\ scen' = [scen EXCEPT !.procs[p] = [r EXCEPT !.pending = @ \ {f}]]
    /\ UNCHANGED <<groups, files, nextGroupId, batch, ret, processed, hist, steps>>

\* mutant: the rejection of a face-doc update is not caught
OnRejectedUncaught(r) == [r EXCEPT !.pc = "failed"]

\* .catch(err => console.warn(...)) on each face-doc update (line 687)
OnRejectedFaceUpdate(r) == r

\* one face-doc update of the merge that the store rejects
PMergeFaceRejected(p) ==
  LET r == scen.procs[p] IN
    /\ r.pc = "merge_faces"
    /\ \E f \in r.pending :
         scen' = [scen EXCEPT
                    !.procs[p] = OnRejectedFaceUpdate([r EXCEPT !.pending = @ \ {f}]),
                    !.rejected = @ \cup {f}]
    /\ ReadOnly

\* primaryRef.update with the arrays computed from the two snapshots
PMergePrimary(p) ==
  LET r == scen.procs[p]
      primaryGroupId == r.found[1]
      mergedFaceIds == UniqueArray(r.pd[1].faceIds \o r.sd[1].faceIds)
      mergedFileIds == r.pd[1].fileIds \cup r.sd[1].fileIds
  IN /\ r.pc = "merge_primary"
     /\ IF primaryGroupId \notin DOMAIN groups
        THEN /\ scen' = [scen EXCEPT !.procs[p] = [r EXCEPT !.pc = "failed"]]
             /\ UNCHANGED groups
        ELSE /\ groups' = [groups EXCEPT ![primaryGroupId] =
                             [@ EXCEPT !.faceIds = mergedFaceIds,
                                       !.fileIds = mergedFileIds,
                                       !.faceCount = Len(mergedFaceIds),
                                       !.mergedFrom = @ \cup {r.found[r.i]}]]
             /\ scen' = [scen EXCEPT !.procs[p] = [r EXCEPT !.pc = StageAfter("merge_primary")]]
     /\ GroupsOnly

\* secondaryRef.delete; scen.merged keeps what the deleted snapshot held
PMergeDelete(p) ==
  LET r == scen.procs[p] IN
    /\ r.pc = "merge_delete"
    /\ groups' = Drop(groups, r.found[r.i])
    /\ scen' = [scen EXCEPT
                  !.procs[p] = [r EXCEPT !.pc = StageAfter("merge_delete")],
                  !.merged = @ \cup {[id |-> r.found[r.i], into |-> r.found[1],
                                      members |-> Range(r.sd[1].faceIds),
                                      faceIds |-> Range(r.pd[1].faceIds \o r.sd[1].faceIds),
                                      fileIds |-> r.pd[1].fileIds \cup r.sd[1].fileIds]}]
    /\ GroupsOnly

\* mergeGroups returns: the next secondary, or addFaceToGroup
PMergeNext(p) ==
  LET r == scen.procs[p] IN
    /\ r.pc = "merge_next"
    /\ scen' = [scen EXCEPT !.procs[p] =
                  [r EXCEPT !.i = IF r.i < Len(r.found) THEN r.i + 1 ELSE 0,
                            !.got = {}, !.pd = <<>>, !.sd = <<>>, !.pending = {},
                            !.pc = IF r.i < Len(r.found) THEN "merge_get" ELSE "add_get"]]
    /\ ReadOnly

\* addFaceToGroup: groupRef.get
PAddGet(p) ==
  LET r == scen.procs[p] IN
    /\ r.pc = "add_get"
    /\ scen' = [scen EXCEPT !.procs[p] =
                  IF r.target \in DOMAIN groups
                  THEN [r EXCEPT !.len = Len(groups[r.target].faceIds),
                                 !.incl = Includes(groups[r.target].faceIds, r.faceId),
                                 !.pc = "add_update"]
                  ELSE [r EXCEPT !.pc = "facedoc"]]
    /\ ReadOnly

\* addFaceToGroup: groupRef.update, arrayUnion on the stored arrays and the
\* count from the length read before
PAddUpdate(p) ==
  LET r == scen.procs[p] IN
    /\ r.pc = "add_update"
    /\ IF r.target \notin DOMAIN groups
       THEN /\ scen' = [scen EXCEPT !.procs[p] = [r EXCEPT !.pc = "failed"]]
            /\ UNCHANGED groups
       ELSE /\ groups' = [groups EXCEPT ![r.target] =
                            IF ~r.incl
                            THEN [@ EXCEPT !.faceIds = ArrayUnion(@, r.faceId),
                                           !.fileIds = @ \cup {RaceFile},
                                           !.faceCount = r.len + 1]
                            ELSE [@ EXCEPT !.fileIds = @ \cup {RaceFile}]]
            /\ scen' = [scen EXCEPT !.procs[p] =
                          [r EXCEPT !.len = 0, !.incl = FALSE, !.pc = "facedoc"]]
    /\ GroupsOnly

\* createFaceDocument: faceRef.set
PFaceDoc(p) ==
  LET r == scen.procs[p]
      T == CreateFaceDocument(Store, r.faceId, r.target, RaceFile)
  IN /\ r.pc = "facedoc"
     /\ faceDocs' = T.faceDocs
     /\ scen' = [scen EXCEPT !.procs[p] = [r EXCEPT !.pc = "get"]]
     /\ UNCHANGED <<groups, files, nextGroupId, batch, ret, processed, hist, steps>>

\* getGroup for the returned list
PGetGroup(p) ==
  LET r == scen.procs[p] IN
    /\ r.pc = "get"
    /\ scen' = [scen EXCEPT !.procs[p] =
                  [r EXCEPT !.pushed = IF r.target \in DOMAIN groups
                                       THEN <<r.target>> ELSE <<>>,
                            !.pc = "file"]]
    /\ ReadOnly

\* updateFileWithGroupIds, and the call returns
PFile(p) ==
  LET r == scen.procs[p] IN
    /\ r.pc = "file"
    /\ files' = UpdateFileWithGroupIds(files, RaceFile, Put(<<>>, r.faceId, r.target))
    /\ ret' = r.pushed
    /\ scen' = [scen EXCEPT !.procs[p] = [r EXCEPT !.pc = "done"]]
    /\ UNCHANGED <<groups, faceDocs, nextGroupId, batch, processed, hist, steps>>

\* the call stops between two store operations
Abort(p) ==
  /\ scen.procs[p].pc \notin Terminal
  /\ scen' = [scen EXCEPT !.procs[p].pc = "aborted"]
  /\ ReadOnly

\* a later call, after both calls have returned or thrown
LaterFace ==
  /\ scen.phase = "race"
  /\ \A p \in Procs : scen.procs[p].pc \in {"done", "failed"}
  /\ \E M \in SUBSET RaceFaces :
       /\ SequentialCall(LaterFaceId, RaceFile, M)
       /\ scen' = [scen EXCEPT !.phase = "later", !.later = M]

NextConc ==
  \/ SetupFace
  \/ StartRace
  \/ \E p \in Procs : PFind(p)
  \/ \E p \in Procs : PCreate(p)
  \/ \E p \in Procs : PMergeGetPrimary(p)
  \/ \E p \in Procs : PMergeGetSecondary(p)
  \/ \E p \in Procs : PMergeFace(p)
  \/ \E p \in Procs : PMergePrimary(p)
  \/ \E p \in Procs : PMergeDelete(p)
  \/ \E p \in Procs : PMergeNext(p)
  \/ \E p \in Procs : PAddGet(p)
  \/ \E p \in Procs : PAddUpdate(p)
  \/ \E p \in Procs : PFaceDoc(p)
  \/ \E p \in Procs : PGetGroup(p)
  \/ \E p \in Procs : PFile(p)
  \/ LaterFace

\* two concurrent calls and a later one
SpecConc == InitRace /\ [][NextConc]_vars

NextAbort ==
  \/ SetupFace
  \/ StartOne
  \/ PFind(1)
  \/ PCreate(1)
  \/ PMergeGetPrimary(1)
  \/ PMergeGetSecondary(1)
  \/ PMergeFace(1)
  \/ PMergePrimary(1)
  \/ PMergeDelete(1)
  \/ PMergeNext(1)
  \/ PAddGet(1)
  \/ PAddUpdate(1)
  \/ PFaceDoc(1)
  \/ PGetGroup(1)
  \/ PFile(1)
  \/ Abort(1)

\* one call that may stop between any two of its store operations
SpecAbort == InitRace /\ [][NextAbort]_vars

NextReject ==
  \/ SetupFace
  \/ StartOne
  \/ PFind(1)
  \/ PCreate(1)
  \/ PMergeGetPrimary(1)
  \/ PMergeGetSecondary(1)
  \/ PMergeFace(1)
  \/ PMergeFaceRejected(1)
  \/ PMergePrimary(1)
  \/ PMergeDelete(1)
  \/ PMergeNext(1)
  \/ PAddGet(1)
  \/ PAddUpdate(1)
  \/ PFaceDoc(1)
  \/ PGetGroup(1)
  \/ PFile(1)

\* one call, with face-doc updates of a merge that the store may reject
SpecReject == InitRace /\ [][NextReject]_vars

\* ------------------------------------------- processFaces, SearchFaces
\* Calls whose faces carry no matches: the match set comes from the SearchFaces
\* request, which answers with a list of face ids or fails.
MaxEngineSteps == 3

Responses(known, faceId) ==
  {[error |-> TRUE, FaceMatches |-> <<>>]}
  \cup {[error |-> FALSE, FaceMatches |-> SortedSeq(M)] : M \in MatchSets(known \cup {faceId})}

\* mutant: the failure of the request is not caught
SearchForMatchesUncaught(faceId, response) ==
  [threw |-> response.error,
   matches |-> SelectSeq(response.FaceMatches, LAMBDA id : id # faceId)]

\* searchForMatches (lines 162-187): the catch block returns []
SearchForMatches(faceId, response) ==
  [threw |-> FALSE,
   matches |-> IF response.error THEN <<>>
               ELSE SelectSeq(response.FaceMatches, LAMBDA id : id # faceId)]

InitEngine ==
  InitStore /\ scen = [error |-> FALSE, raised |-> FALSE, faceId |-> 0, failed |-> {}]

EngineBegin ==
  /\ StartBatch
  /\ scen' = [error |-> FALSE, raised |-> FALSE, faceId |-> 0, failed |-> {}]

\* one iteration of the loop for a face without supplied matches
EngineFaceStep(faceId, response) ==
  LET out == SearchForMatches(faceId, response) IN
    /\ steps < MaxEngineSteps
    /\ IF out.threw
       THEN /\ batch.active
            /\ batch' = Idle
            /\ ret' = <<>>
            /\ steps' = steps + 1
            /\ scen' = [scen EXCEPT !.error = TRUE, !.raised = TRUE, !.faceId = faceId]
            /\ UNCHANGED <<groups, faceDocs, files, nextGroupId, processed>>
       ELSE /\ ProcessFaceStep([faceId |-> faceId, hasBox |-> TRUE,
                                matchedFaceIds |-> <<>>, aws |-> out.matches])
            /\ scen' = [scen EXCEPT !.error = response.error, !.faceId = faceId,
                                    !.failed = IF response.error THEN @ \cup {faceId} ELSE @]
    /\ UNCHANGED hist

EngineFace ==
  \E faceId \in Nameable(KnownFaces, Faces) :
    \E response \in Responses(KnownFaces, faceId) : EngineFaceStep(faceId, response)

EngineFinish == FinishBatch /\ UNCHANGED scen

NextEngine == EngineBegin \/ EngineFace \/ EngineFinish

SpecEngine == InitEngine /\ [][NextEngine]_vars

\* ------------------------------------------- findGroupsContainingFaces alone
\* The function applied to a store of up to MaxFindGroups groups and to a list
\* of face ids that may be longer than one slice of the query.
MaxFindGroups == 2
FindFaces == 1..(BatchSize + 2)

\* the faceIds of the stored groups: within the first slice, within the
\* second, and across both
FindMembers ==
  {<<1>>, <<BatchSize>>, <<BatchSize + 1>>, <<1, BatchSize + 1>>, <<BatchSize, BatchSize + 2>>}

FindStores ==
  UNION {[ids -> {NewGroupDoc(m, 1, i) : m \in FindMembers, i \in Scopes}] :
           ids \in SUBSET (1..MaxFindGroups)}

\* the matched face ids: any run a, a+1, .., b of face ids, or none
FindQueries ==
  {<<>>} \cup {[k \in 1..(b - a + 1) |-> a + k - 1] : a \in FindFaces, b \in FindFaces}

InitFind ==
  /\ \E G \in FindStores : groups = G
  /\ faceDocs = <<>>
  /\ files = [f \in Files |-> [faceGroupMapping |-> <<>>]]
  /\ nextGroupId = MaxFindGroups + 1
  /\ batch = Idle
  /\ ret = <<>>
  /\ processed = {}
  /\ hist = {}
  /\ steps = 0
  /\ \E faceIds \in FindQueries, interviewId \in Scopes :
       scen = [faceIds |-> faceIds, interviewId |-> interviewId, done |-> FALSE]

FindCall ==
  /\ ~scen.done
  /\ ret' = FindGroupsContainingFaces(groups, scen.faceIds, scen.interviewId)
  /\ scen' = [scen EXCEPT !.done = TRUE]
  /\ UNCHANGED <<groups, faceDocs, files, nextGroupId, batch, processed, hist, steps>>

SpecFind == InitFind /\ [][FindCall]_vars

\* ------------------------------------------- POST /process-faces, tombstones
\* Bounding boxes: coordinates in hundredths of the image side; Undef is a
\* coordinate the box does not carry, present = FALSE a face without a box.
Undef == -1
Tolerance == 5
MaxTombSteps == 3

Coords == {0, 4, 5}
Boxes ==
  {[present |-> FALSE, Left |-> Undef, Top |-> Undef, Width |-> Undef, Height |-> Undef],
   [present |-> TRUE, Left |-> Undef, Top |-> 0, Width |-> 0, Height |-> 0],
   [present |-> TRUE, Left |-> 5, Top |-> Undef, Width |-> 0, Height |-> 0],
   [present |-> TRUE, Left |-> 5, Top |-> 0, Width |-> Undef, Height |-> 0],
   [present |-> TRUE, Left |-> 4, Top |-> 0, Width |-> 0, Height |-> Undef]}
  \cup [present : {TRUE}, Left : Coords, Top : {0, 5}, Width : {0}, Height : {0}]

TombBox(l, t) == [present |-> TRUE, Left |-> l, Top |-> t, Width |-> 0, Height |-> 0]
NoTombBox == [present |-> FALSE, Left |-> Undef, Top |-> Undef, Width |-> Undef, Height |-> Undef]

\* the deletedFaces array of a file doc (written by the owner of the file doc)
TombLists ==
  {<<>>, <<TombBox(0, 0)>>, <<TombBox(5, 5)>>, <<NoTombBox, TombBox(5, 0)>>}

Abs(x) == IF x < 0 THEN -x ELSE x

\* (box.Left || 0)
Coord(v) == IF v = Undef THEN 0 ELSE v

\* mutant: a difference equal to the tolerance still matches
BoundingBoxesMatchInclusive(faceBox, deletedBox) ==
  /\ faceBox.present
  /\ deletedBox.present
  /\ Abs(Coord(faceBox.Left) - Coord(deletedBox.Left)) <= Tolerance
  /\ Abs(Coord(faceBox.Top) - Coord(deletedBox.Top)) <= Tolerance
  /\ Abs(Coord(faceBox.Width) - Coord(deletedBox.Width)) <= Tolerance
  /\ Abs(Coord(faceBox.Height) - Coord(deletedBox.Height)) <= Tolerance

\* mutant: only equal boxes match
BoundingBoxesEqual(faceBox, deletedBox) ==
  /\ faceBox.present
  /\ deletedBox.present
  /\ faceBox = deletedBox

BoundingBoxesMatch(faceBox, deletedBox) ==
  /\ faceBox.present
  /\ deletedBox.present
  /\ Abs(Coord(faceBox.Left) - Coord(deletedBox.Left)) < Tolerance
  /\ Abs(Coord(faceBox.Top) - Coord(deletedBox.Top)) < Tolerance
  /\ Abs(Coord(faceBox.Width) - Coord(deletedBox.Width)) < Tolerance
  /\ Abs(Coord(faceBox.Height) - Coord(deletedBox.Height)) < Tolerance

\* filterDeletedFaces, for one face: TRUE when the face stays in the array
KeptByFilter(box, deletedFaces) ==
  \/ Len(deletedFaces) = 0
  \/ ~box.present
  \/ ~\E i \in DOMAIN deletedFaces : BoundingBoxesMatch(box, deletedFaces[i])

\* mutant: only the presence of the box is checked
ValidBoxPresentOnly(box) == box.present

\* the bounding box validation of processFaces (lines 258-270)
ValidBox(box) ==
  /\ box.present
  /\ box.Left # Undef
  /\ box.Top # Undef
  /\ box.Width # Undef
  /\ box.Height # Undef

\* filterDeletedFaces alone: one candidate box against a deletedFaces array of
\* up to MaxTombs entries
MaxTombs == 2

CandidateBoxes ==
  {NoTombBox}
  \cup [present : {TRUE}, Left : Coords \cup {Undef}, Top : Coords \cup {Undef},
        Width : Coords \cup {Undef}, Height : Coords \cup {Undef}]

StoredTombBoxes ==
  {NoTombBox}
  \cup [present : {TRUE}, Left : {0, Tolerance}, Top : {0, Tolerance},
        Width : {0, Tolerance}, Height : {0, Tolerance}]

StoredTombLists == UNION {[1..n -> StoredTombBoxes] : n \in 0..MaxTombs}

InitBoxes ==
  /\ InitStore
  /\ \E box \in CandidateBoxes, deletedFaces \in StoredTombLists :
       scen = [box |-> box, deletedFaces |-> deletedFaces, done |-> FALSE, kept |-> FALSE]

FilterCall ==
  /\ ~scen.done
  /\ scen' = [scen EXCEPT !.done = TRUE, !.kept = KeptByFilter(scen.box, scen.deletedFaces)]
  /\ UNCHANGED <<groups, faceDocs, files, nextGroupId, batch, ret, processed, hist, steps>>

SpecBoxes == InitBoxes /\ [][FilterCall]_vars

InitTomb ==
  InitStore /\ scen = [deletedFaces |-> <<>>, dropped |-> {}, faceId |-> 0, box |-> NoTombBox,
                       source |-> "none"]

\* the route reads the file doc, then processFaces validates the source
TombBegin ==
  \E fileId \in Nameable(KnownFiles, Files), interviewId \in NameableScopes,
     source \in Sources, deletedFaces \in TombLists :
    /\ BeginBatch(fileId, interviewId, source)
    /\ scen' = [deletedFaces |-> IF source = "absent" THEN <<>> ELSE deletedFaces,
                dropped |-> {}, faceId |-> 0, box |-> NoTombBox, source |-> source]

TombInputs ==
  UNION {{[faceId |-> f, box |-> b, hasBox |-> ValidBox(b),
           matchedFaceIds |-> <<>>, aws |-> SortedSeq(M \ {f})] :
            b \in Boxes, M \in SUBSET processed} :
         f \in Nameable(KnownFaces, Faces)}

\* one face of the request: dropped by the filter, or handed to processFaces
TombFaceStep(inp) ==
  /\ steps < MaxTombSteps
  /\ IF KeptByFilter(inp.box, scen.deletedFaces)
     THEN /\ ProcessFaceStep(inp)
          /\ scen' = [scen EXCEPT !.faceId = inp.faceId, !.box = inp.box]
          /\ UNCHANGED hist
     ELSE /\ batch.active
          /\ batch.n < MaxBatch
          /\ batch' = [batch EXCEPT !.n = @ + 1]
          /\ steps' = steps + 1
          /\ scen' = [scen EXCEPT !.dropped = @ \cup {inp.faceId},
                                  !.faceId = inp.faceId, !.box = inp.box]
          /\ UNCHANGED <<groups, faceDocs, files, nextGroupId, ret, processed, hist>>

TombFace == \E inp \in TombInputs : TombFaceStep(inp)

TombFinish == FinishBatch /\ UNCHANGED scen

NextTomb == TombBegin \/ TombFace \/ TombFinish

SpecTomb == InitTomb /\ [][NextTomb]_vars

\* ------------------------------------------------------------ properties
GroupsContaining(f) == {g \in DOMAIN groups : Includes(groups[g].faceIds, f)}

\* C1: after any sequence of processFaces calls, every face that was processed
\* is a member of exactly one group.
UniqueMembership ==
  \A f \in processed : Cardinality(GroupsContaining(f)) = 1

\* faces processed under scope s, and the match relation R within the scope
ProcessedIn(s) == {f \in Faces : <<f, f, s>> \in hist}

MatchEdge(a, b, s) ==
  /\ a \in ProcessedIn(s)
  /\ b \in ProcessedIn(s)
  /\ (<<a, b, s>> \in hist \/ <<b, a, s>> \in hist)

RECURSIVE RelatedTo(_, _)
RelatedTo(C, s) ==
  LET D == C \cup {b \in Faces : \E a \in C : MatchEdge(a, b, s)}
  IN IF D = C THEN C ELSE RelatedTo(D, s)

CoGrouped(a, b) ==
  \E g \in DOMAIN groups : {a, b} \subseteq Range(groups[g].faceIds)

\* C2: within one interview scope (or among the unscoped batches), two
\* processed faces related by the reflexive-transitive-symmetric closure of
\* "was in the matches set of" are members of the same group.
TransitiveClosure ==
  \A s \in Scopes : \A a \in ProcessedIn(s) : \A b \in RelatedTo({a}, s) : CoGrouped(a, b)

\* C7: after processFaces calls only, every member of every group is a face
\* that was itself processed; a face that only occurred in matches is no member.
NoPhantomMembers ==
  \A g \in DOMAIN groups : Range(groups[g].faceIds) \subseteq processed

\* C7 witness: a grouped face has a match that was never processed
PhantomCandidate ==
  \E h \in hist : /\ h[2] \notin processed
                  /\ GroupsContaining(h[1]) # {}

\* C10: the list processFaces returns holds no groupId twice.
ReturnsDistinctGroups ==
  \A i, j \in DOMAIN ret : i # j => ret[i] # ret[j]

\* C4: every stored group has faceCount = number of entries of faceIds, and
\* faceIds has no duplicate entry.
CountConsistency ==
  \A g \in DOMAIN groups :
    /\ groups[g].faceCount = Len(groups[g].faceIds)
    /\ Cardinality(Range(groups[g].faceIds)) = Len(groups[g].faceIds)

\* C5: every group with a non-empty faceIds has its leaderFaceId in faceIds.
LeaderValidity ==
  \A g \in DOMAIN groups :
    Len(groups[g].faceIds) > 0 => Includes(groups[g].faceIds, groups[g].leaderFaceId)

\* C6: for every face doc with groupId = g such that group g exists, the face
\* is in g.faceIds.
FaceDocAgreement ==
  \A f \in DOMAIN faceDocs :
    faceDocs[f].groupId \in DOMAIN groups =>
      Includes(groups[faceDocs[f].groupId].faceIds, f)

\* C6 witness: after a merge, the face doc of an absorbed face names the
\* surviving group
FaceDocRetargeted ==
  \E g \in DOMAIN groups :
    /\ groups[g].mergedFrom # {}
    /\ \E f \in DOMAIN faceDocs :
         /\ faceDocs[f].groupId = g
         /\ f # groups[g].faceIds[1]
         /\ Len(groups[g].faceIds) >= 3

\* C3: after processFaces was applied a second time with the same arguments,
\* the set of groups, every group's faceIds and faceCount and every face doc's
\* groupId are what they were after the first application.
Idempotent ==
  scen.phase = "done" => Observable(Store) = scen.after

\* C8: starting from an empty store, once the first faces of the chain are
\* processed there is exactly one group; its faceIds are the faces processed,
\* its faceCount is their number and its fileIds are the files they came from.
ChainMerge ==
  scen.pos >= 1 =>
    /\ Cardinality(DOMAIN groups) = 1
    /\ \A g \in DOMAIN groups :
         /\ Range(groups[g].faceIds) = 1..scen.pos
         /\ Len(groups[g].faceIds) = scen.pos
         /\ groups[g].faceCount = scen.pos
         /\ groups[g].fileIds = scen.files

\* C8 witness: three faces of the chain are processed, each in a batch of its
\* own from a file of its own
ChainComplete ==
  /\ scen.pos = 3
  /\ Cardinality(scen.files) = 3
  /\ ~batch.active

\* C9: when a face is processed whose matches have members in k >= 2 groups
\* visible in its scope, the first group found survives with the union of the
\* k groups' faceIds plus the face, the union of their fileIds plus the file of
\* the batch, faceCount the size of the union, the k-1 absorbed ids in
\* mergedFrom and its leader unchanged; the other k-1 groups are gone.
BridgeOutcome(inp) ==
  LET found == FindGroupsContainingFaces(groups, ResolveMatches(inp), batch.interviewId)
      primary == found[1]
      absorbed == Range(found) \ {primary}
      members == UNION {Range(groups[g].faceIds) : g \in Range(found)} \cup {inp.faceId}
  IN (inp.hasBox /\ Len(ResolveMatches(inp)) > 0 /\ Len(found) >= 2
      /\ ProcessFaceStep(inp)) =>
       /\ primary \in DOMAIN groups'
       /\ \A g \in absorbed : g \notin DOMAIN groups'
       /\ Range(groups'[primary].faceIds) = members
       /\ groups'[primary].faceCount = Cardinality(members)
       /\ groups'[primary].fileIds =
            UNION {groups[g].fileIds : g \in Range(found)} \cup {batch.fileId}
       /\ absorbed \subseteq groups'[primary].mergedFrom
       /\ groups'[primary].leaderFaceId = groups[primary].leaderFaceId

BridgeMerge ==
  [][(batch.active /\ batch'.active /\ Cardinality(DOMAIN groups) >= 2) =>
       \A inp \in FaceInputs(KnownFaces, Nameable(KnownFaces, Faces)) :
         BridgeOutcome(inp)]_vars

\* C9 witness: a group that absorbed another one when a third face was processed
BridgeMerged ==
  \E g \in DOMAIN groups :
    /\ groups[g].mergedFrom # {}
    /\ Len(groups[g].faceIds) >= 3
    /\ groups[g].faceIds[Len(groups[g].faceIds)] \in processed

\* a box with all four coordinates lies within tolerance of a tombstone box
WithinTolerance(box, tomb) ==
  /\ ValidBox(box)
  /\ ValidBox(tomb)
  /\ Abs(box.Left - tomb.Left) < Tolerance
  /\ Abs(box.Top - tomb.Top) < Tolerance
  /\ Abs(box.Width - tomb.Width) < Tolerance
  /\ Abs(box.Height - tomb.Height) < Tolerance

Tombstoned(box) ==
  \E i \in DOMAIN scen.deletedFaces : WithinTolerance(box, scen.deletedFaces[i])

\* C11: in a call for a file with tombstones, a face whose box is within
\* tolerance of a tombstone changes no group and no face doc, whatever its
\* faceId; a face with a valid box that is within tolerance of no tombstone is
\* processed: afterwards it is a member of a group and has a face doc.
DeletionPersistence ==
  [][steps' = steps + 1 =>
       /\ Tombstoned(scen'.box) => UNCHANGED <<groups, faceDocs>>
       /\ (ValidBox(scen'.box) /\ ~Tombstoned(scen'.box)) =>
            /\ \E g \in DOMAIN groups' : Includes(groups'[g].faceIds, scen'.faceId)
            /\ scen'.faceId \in DOMAIN faceDocs']_vars

\* C11 witness: in one call, one face was dropped and another one was grouped
TombstoneApplied ==
  /\ batch.active
  /\ scen.dropped # {}
  /\ DOMAIN batch.fileUpdates # {}
  /\ scen.dropped \cap DOMAIN batch.fileUpdates = {}

ForeignGroups(interviewId) ==
  {g \in DOMAIN groups : groups[g].interviewId \notin {interviewId, NoInterview}}

\* the face has matches, and every group holding one of them is foreign
OnlyForeignMatches(inp) ==
  LET holders == {g \in DOMAIN groups :
                    Range(groups[g].faceIds) \cap Range(ResolveMatches(inp)) # {}}
  IN /\ inp.hasBox
     /\ holders # {}
     /\ holders \subseteq ForeignGroups(batch.interviewId)

\* C13: a face processed under interview Y leaves every group of another
\* interview as it was (not joined, not merged), every group the step creates
\* carries interviewId Y, and a face whose matches are only members of groups
\* of other interviews is placed alone in a new group of interview Y.
InterviewScoping ==
  [][(batch.active /\ batch'.active /\ batch.interviewId # NoInterview) =>
       /\ \A g \in ForeignGroups(batch.interviewId) :
            g \in DOMAIN groups' /\ groups'[g] = groups[g]
       /\ \A g \in DOMAIN groups' \ DOMAIN groups :
            groups'[g].interviewId = batch.interviewId
       /\ ForeignGroups(batch.interviewId) # {} =>
            \A inp \in FaceInputs(KnownFaces, Nameable(KnownFaces, Faces)) :
              (OnlyForeignMatches(inp) /\ ProcessFaceStep(inp)) =>
                /\ nextGroupId \in DOMAIN groups'
                /\ groups'[nextGroupId].faceIds = <<inp.faceId>>
                /\ groups'[nextGroupId].interviewId = batch.interviewId
                /\ faceDocs'[inp.faceId].groupId = nextGroupId]_vars

\* C13 witness: a face processed under Y matched a member of a group of
\* interview X and is in a group of interview Y
ScopedApart ==
  \E h \in hist :
    /\ h[3] = "Y"
    /\ h[1] # h[2]
    /\ \E g1, g2 \in DOMAIN groups :
         /\ groups[g1].interviewId = "X"
         /\ Includes(groups[g1].faceIds, h[2])
         /\ groups[g2].interviewId = "Y"
         /\ Includes(groups[g2].faceIds, h[1])
         /\ ~Includes(groups[g1].faceIds, h[1])

\* ------------------------------------------------ manual operations, claims
HoldersIn(S, f) == {g \in DOMAIN S.groups : Includes(S.groups[g].faceIds, f)}

\* C14: when removeFaceFromGroup removes the leader of a group that has other
\* members, the new leader is the first remaining entry of faceIds, the cached
\* leader file is the fileId of the new leader's face doc, and faceCount is the
\* number of remaining entries.
LeaderAfterRemovalRefreshed ==
  \A g \in DOMAIN groups :
    LET f == groups[g].leaderFaceId
        rest == FilterOut(groups[g].faceIds, f)
        after == RemoveFaceFromGroup(Store, g, f)
    IN (Includes(groups[g].faceIds, f) /\ Len(rest) > 0) =>
         /\ after.groups[g].leaderFaceId = rest[1]
         /\ after.groups[g].faceCount = Len(rest)
         /\ rest[1] \in DOMAIN after.faceDocs
         /\ after.groups[g].leaderFile = after.faceDocs[rest[1]].fileId

\* C15: after the merge route reported success with groupId g1 for existing
\* groups g1, g2, group g1 holds the union of their faceIds, g2 no longer
\* exists and the face docs of g2's former members name g1.
ManualMergeApplied ==
  \A g1, g2 \in DOMAIN groups :
    LET out == MergeGroupsRoute(Store, <<g1, g2>>) IN
      (g1 # g2 /\ out.success) =>
        /\ out.groupId = g1
        /\ g1 \in DOMAIN out.store.groups
        /\ Range(out.store.groups[g1].faceIds) =
             Range(groups[g1].faceIds) \cup Range(groups[g2].faceIds)
        /\ g2 \notin DOMAIN out.store.groups
        /\ \A f \in Range(groups[g2].faceIds) \cap DOMAIN out.store.faceDocs :
             out.store.faceDocs[f].groupId = g1

\* C16: removeFaceFromGroup(g, f) with f a member of g: afterwards f is not in
\* g.faceIds, f has no face doc, g.faceCount is the new length of g.faceIds,
\* and g still exists, also when f was its last member.
RemoveFaceEffect ==
  \A g \in DOMAIN groups : \A f \in Range(groups[g].faceIds) :
    LET after == RemoveFaceFromGroup(Store, g, f) IN
      /\ g \in DOMAIN after.groups
      /\ ~Includes(after.groups[g].faceIds, f)
      /\ f \notin DOMAIN after.faceDocs
      /\ after.groups[g].faceCount = Len(after.groups[g].faceIds)
      /\ Range(after.groups[g].faceIds) = Range(groups[g].faceIds) \ {f}

\* C16 witness: a group emptied by removeFaceFromGroup is kept with faceCount 0
EmptiedGroupKept ==
  \E g \in DOMAIN groups :
    /\ Len(groups[g].faceIds) = 0
    /\ groups[g].faceCount = 0
    /\ groups[g].leaderFaceId \notin DOMAIN faceDocs

\* C17: for an existing group g, a second addFaceToExistingGroup(g, f, fileId)
\* leaves g.faceIds, g.faceCount and the groupId of f's face doc as they were
\* after the first call, and f occurs once in g.faceIds.
AddFaceIdempotent ==
  \A g \in DOMAIN groups : \A f \in Faces : \A fileId \in Files \cup {ManualFile} :
    LET once == AddFaceToExistingGroup(Store, g, f, fileId)
        twice == AddFaceToExistingGroup(once, g, f, fileId)
    IN /\ twice.groups[g].faceIds = once.groups[g].faceIds
       /\ twice.groups[g].faceCount = once.groups[g].faceCount
       /\ (f \in DOMAIN twice.faceDocs) = (f \in DOMAIN once.faceDocs)
       /\ f \in DOMAIN once.faceDocs =>
            twice.faceDocs[f].groupId = once.faceDocs[f].groupId
       /\ Len(SelectSeq(twice.groups[g].faceIds, LAMBDA x : x = f)) = 1

\* C18: when f is a member of g1 and addFaceToExistingGroup(g2, f) is called
\* for another existing group g2, afterwards f is in the faceIds of at most
\* one group and f's face doc names that group.
AddFaceKeepsMembershipUnique ==
  \A g1, g2 \in DOMAIN groups : \A f \in Range(groups[g1].faceIds) :
    \A fileId \in Files \cup {ManualFile} :
      LET after == AddFaceToExistingGroup(Store, g2, f, fileId) IN
        g1 # g2 =>
          /\ Cardinality(HoldersIn(after, f)) <= 1
          /\ f \in DOMAIN after.faceDocs =>
               after.faceDocs[f].groupId \in HoldersIn(after, f)

\* the calls of createGroupWithFaces with one or two faces
CreateCalls ==
  UNION {[faceIds : [1..n -> Faces], faceFileIds : [1..n -> Files \cup {ManualFile}]] :
           n \in 1..MaxCreate}

\* C19: createGroupWithFaces creates a group whose faceIds are the given
\* faces and whose leader is the first face, and every member has a face doc
\* whose groupId is the new group's id.
CreateGroupPersistsFaceDocs ==
  \A c \in CreateCalls :
    LET after == CreateGroupWithFaces(Store, c.faceIds, c.faceFileIds)
        new == nextGroupId
    IN /\ new \in DOMAIN after.groups
       /\ after.groups[new].faceIds = c.faceIds
       /\ after.groups[new].leaderFaceId = c.faceIds[1]
       /\ \A f \in Range(c.faceIds) :
            /\ f \in DOMAIN after.faceDocs
            /\ after.faceDocs[f].groupId = new

\* C20: a face passed to createGroupWithFaces that is a member of another
\* group is afterwards a member of the new group only; the old group's
\* faceCount and leader fit its remaining members.
CreateGroupMovesFaces ==
  \A c \in CreateCalls :
    LET after == CreateGroupWithFaces(Store, c.faceIds, c.faceFileIds)
        new == nextGroupId
    IN \A f \in Range(c.faceIds) :
         /\ HoldersIn(after, f) = {new}
         /\ \A g \in HoldersIn(Store, f) :
              /\ after.groups[g].faceCount = Len(after.groups[g].faceIds)
              /\ Len(after.groups[g].faceIds) > 0 =>
                   Includes(after.groups[g].faceIds, after.groups[g].leaderFaceId)

\* C21: deleteGroup(g) on an existing group deletes the group doc and the
\* face docs of its members: afterwards no face doc has groupId = g.
DeleteGroupDeletesFaceDocs ==
  \A g \in DOMAIN groups :
    LET after == DeleteGroup(Store, g) IN
      /\ g \notin DOMAIN after.groups
      /\ \A f \in DOMAIN after.faceDocs : after.faceDocs[f].groupId # g

\* C29: when A was processed with a match B and B was processed in the same
\* scope, A and B are members of one group.
DeferredJoining ==
  \A h \in hist :
    (h[1] \in ProcessedIn(h[3]) /\ h[2] \in ProcessedIn(h[3])) => CoGrouped(h[1], h[2])

StatusRank(status) ==
  CASE status = "unreviewed" -> 0
    [] status = "reviewed" -> 1
    [] status = "named" -> 2

Renamed(g) ==
  /\ "personName" \in DOMAIN groups'[g]
  /\ \/ "personName" \notin DOMAIN groups[g]
     \/ groups'[g].personName # groups[g].personName

\* C22: the status of a group never moves backward along unreviewed ->
\* reviewed -> named, and a group that was just renamed has status named.
StatusMachine ==
  [][\A g \in DOMAIN groups \cap DOMAIN groups' :
       /\ StatusRank(groups'[g].status) >= StatusRank(groups[g].status)
       /\ Renamed(g) => groups'[g].status = "named"]_vars

\* C23: a reset request for a user that is not the configured test user is
\* answered 403 and deletes no group doc of any user; a reset request for the
\* configured test user deletes all group docs of that user and reports
\* their number.
ResetRestricted ==
  [][scen'.op = "reset" =>
       IF scen'.caller # scen.env
       THEN scen'.status = 403 /\ groups' = groups
       ELSE /\ groups'[scen'.caller] = <<>>
            /\ scen'.deletedCount = Cardinality(DOMAIN groups[scen'.caller])]_vars

\* C24: a request of user u leaves the groups, the face docs and the file
\* docs of every other user unchanged.
UserIsolation ==
  [][\A v \in Users \ {scen'.caller} :
       /\ groups'[v] = groups[v]
       /\ faceDocs'[v] = faceDocs[v]
       /\ files'[v] = files[v]]_vars

\* two users hold different groups, and one of them made the last request
UsersApart ==
  \E u \in Users, v \in Users :
    /\ u # v
    /\ scen.caller = u
    /\ groups[u] # <<>>
    /\ groups[v] # <<>>
    /\ groups[u] # groups[v]
    /\ faceDocs[v] # <<>>

\* the two concurrent calls have returned
BothDone == scen.phase = "race" /\ \A p \in Procs : scen.procs[p].pc = "done"

\* each of the two concurrent calls found no group and created one
BothCreated ==
  \A p \in Procs : /\ scen.procs[p].pc = "done"
                   /\ Len(scen.procs[p].found) = 0
                   /\ scen.procs[p].target # 0

RaceRelated ==
  \/ Includes(scen.procs[1].matches, ProcFace(2))
  \/ Includes(scen.procs[2].matches, ProcFace(1))

HoldingAny(F) == {g \in DOMAIN groups : Range(groups[g].faceIds) \cap F # {}}

ConvergenceCase ==
  /\ scen.phase = "later"
  /\ BothCreated
  /\ RaceRelated
  /\ {ProcFace(1), ProcFace(2)} \subseteq scen.later

\* C25: when two concurrent calls each created a group for the related faces
\* a and b, and a later call processed c with a and b among its matches, one
\* single group holds a, b and c and no other group holds any of them.
ConvergenceAfterRace ==
  ConvergenceCase =>
    /\ Cardinality(HoldingAny({ProcFace(1), ProcFace(2), LaterFaceId})) = 1
    /\ \E g \in DOMAIN groups :
         {ProcFace(1), ProcFace(2), LaterFaceId} \subseteq Range(groups[g].faceIds)

ConvergedAfterRace ==
  /\ ConvergenceCase
  /\ \E g \in DOMAIN groups :
       {ProcFace(1), ProcFace(2), LaterFaceId} \subseteq Range(groups[g].faceIds)
  /\ \E p \in Procs : scen.procs[p].target \notin DOMAIN groups

\* C26: once two concurrent processFaces calls of one user have returned, each
\* face they processed is a member of exactly one existing group and its face
\* doc names that group.
ConcurrentMembership ==
  BothDone =>
    \A p \in Procs :
      /\ Cardinality(GroupsContaining(ProcFace(p))) = 1
      /\ ProcFace(p) \in DOMAIN faceDocs
      /\ faceDocs[ProcFace(p)].groupId \in GroupsContaining(ProcFace(p))

\* C27: once two concurrent calls that each added a different face to the same
\* group have returned, the group's faceCount is the length of its faceIds and
\* both faces are members.
ConcurrentCount ==
  (/\ BothDone
   /\ \A p \in Procs : Len(scen.procs[p].found) = 1
   /\ scen.procs[1].target = scen.procs[2].target) =>
    LET g == scen.procs[1].target IN
      /\ g \in DOMAIN groups
      /\ groups[g].faceCount = Len(groups[g].faceIds)
      /\ {ProcFace(1), ProcFace(2)} \subseteq Range(groups[g].faceIds)

\* C28: after a processFaces call was aborted between two store operations,
\* no face is a member of two groups, every faceCount is the length of
\* faceIds, every leader is a member, and a group the call created exists.
AbortConsistency ==
  scen.procs[1].pc = "aborted" =>
    /\ \A f \in RaceFaces : Cardinality(GroupsContaining(f)) <= 1
    /\ \A g \in DOMAIN groups :
         /\ groups[g].faceCount = Len(groups[g].faceIds)
         /\ Includes(groups[g].faceIds, groups[g].leaderFaceId)
    /\ (Len(scen.procs[1].found) = 0 /\ scen.procs[1].target # 0) =>
         scen.procs[1].target \in DOMAIN groups

\* C30: the merge retargets the face docs of the secondary's members, then
\* updates the primary group doc, then deletes the secondary group doc: while
\* the secondary exists and the primary already names it in mergedFrom, and
\* after the secondary was deleted, every existing face doc of a member of the
\* secondary names the primary.
MergeWriteOrder ==
  /\ \A m \in scen.merged :
       /\ m.id \notin DOMAIN groups
       /\ m.into \in DOMAIN groups
       /\ m.id \in groups[m.into].mergedFrom
       /\ \A f \in m.members \cap DOMAIN faceDocs : faceDocs[f].groupId = m.into
  /\ \A g \in DOMAIN groups : \A s \in groups[g].mergedFrom \cap DOMAIN groups :
       \A f \in Range(groups[s].faceIds) \cap DOMAIN faceDocs : faceDocs[f].groupId = g

MergeCompleted ==
  \E m \in scen.merged :
    /\ m.id \notin DOMAIN groups
    /\ \E f \in m.members : f \in DOMAIN faceDocs /\ faceDocs[f].groupId = m.into

\* C31: when the store rejected a face-doc update of a merge, the call does
\* not fail, and once it returned the secondary group doc is deleted and the
\* primary holds the faceIds and the fileIds of both groups.
RejectedUpdateAbsorbed ==
  scen.rejected # {} =>
    /\ scen.procs[1].pc # "failed"
    /\ scen.procs[1].pc = "done" =>
         /\ scen.merged # {}
         /\ \A m \in scen.merged :
              /\ m.id \notin DOMAIN groups
              /\ m.into \in DOMAIN groups
              /\ m.faceIds \subseteq Range(groups[m.into].faceIds)
              /\ m.fileIds \subseteq groups[m.into].fileIds

RejectedMergeDone ==
  /\ scen.rejected # {}
  /\ scen.procs[1].pc = "done"
  /\ \E m \in scen.merged : m.id \notin DOMAIN groups /\ m.members \cap scen.rejected # {}

\* C32: when the SearchFaces request for a face without supplied matches
\* fails, processFaces raises no error and goes on with the batch, and the
\* face is put in a new group that holds only this face; no other group
\* changes.
EngineFailureAbsorbed ==
  [][(steps' = steps + 1 /\ scen'.error) =>
       /\ ~scen'.raised
       /\ batch'.active
       /\ DOMAIN groups' = DOMAIN groups \cup {nextGroupId}
       /\ nextGroupId \notin DOMAIN groups
       /\ groups'[nextGroupId].faceIds = <<scen'.faceId>>
       /\ \A g \in DOMAIN groups : groups'[g] = groups[g]]_vars

\* C32 witness: in one call a search failed and a later face was grouped
EngineFailedThenGrouped ==
  /\ batch.active
  /\ ~scen.error
  /\ scen.failed # {}
  /\ scen.faceId \notin scen.failed
  /\ scen.faceId \in DOMAIN batch.fileUpdates
  /\ \A f \in scen.failed : \E g \in DOMAIN groups : groups[g].faceIds = <<f>>

BoxIncomplete(box) ==
  \/ ~box.present
  \/ box.Left = Undef
  \/ box.Top = Undef
  \/ box.Width = Undef
  \/ box.Height = Undef

CloserThanTolerance(box, tomb) ==
  /\ tomb.present
  /\ Abs(box.Left - tomb.Left) < Tolerance
  /\ Abs(box.Top - tomb.Top) < Tolerance
  /\ Abs(box.Width - tomb.Width) < Tolerance
  /\ Abs(box.Height - tomb.Height) < Tolerance

\* C35: the filter keeps a candidate without a bounding box, and drops a
\* candidate with a box of four coordinates exactly when some tombstone box is
\* closer than the tolerance in each of Left, Top, Width and Height.
TombstoneMatchPredicate ==
  scen.done =>
    /\ ~scen.box.present => scen.kept
    /\ (scen.box.present /\ ~BoxIncomplete(scen.box)) =>
         (~scen.kept <=> \E i \in DOMAIN scen.deletedFaces :
                           CloserThanTolerance(scen.box, scen.deletedFaces[i]))

\* C35 witness: a candidate was kept although a tombstone is at exactly the
\* tolerance in one coordinate and closer in the three others
KeptAtTolerance ==
  /\ scen.done
  /\ scen.kept
  /\ scen.box.present
  /\ ~BoxIncomplete(scen.box)
  /\ \E i \in DOMAIN scen.deletedFaces :
       LET tomb == scen.deletedFaces[i] IN
         /\ tomb.present
         /\ Abs(scen.box.Left - tomb.Left) = Tolerance
         /\ Abs(scen.box.Top - tomb.Top) < Tolerance
         /\ Abs(scen.box.Width - tomb.Width) < Tolerance
         /\ Abs(scen.box.Height - tomb.Height) < Tolerance

\* C36: when processFaces returns, the file doc's faceGroupMapping names, for
\* every face grouped in this call, a group that exists and contains the face;
\* the entries of other faces are the ones the file doc had before. Stated for
\* the calls whose faces array names every face once and has no face skipped.
FileMappingCurrent ==
  [][(batch.active /\ ~batch'.active /\ batch.n = Cardinality(DOMAIN batch.fileUpdates)) =>
       LET mapping == files'[batch.fileId].faceGroupMapping IN
         /\ \A f \in DOMAIN batch.fileUpdates :
              /\ f \in DOMAIN mapping
              /\ mapping[f] \in DOMAIN groups'
              /\ Includes(groups'[mapping[f]].faceIds, f)
         /\ \A f \in DOMAIN files[batch.fileId].faceGroupMapping \ DOMAIN batch.fileUpdates :
              /\ f \in DOMAIN mapping
              /\ mapping[f] = files[batch.fileId].faceGroupMapping[f]]_vars

\* the interviews a face was processed under
InterviewsOf(f) == {s \in Interviews : f \in ProcessedIn(s)}

\* C37: no group has two members that were processed under two different
\* interviews (each of them under one interview only).
NoCrossScopeGroup ==
  \A g \in DOMAIN groups : \A a, b \in Range(groups[g].faceIds) :
    (Cardinality(InterviewsOf(a)) = 1 /\ Cardinality(InterviewsOf(b)) = 1
     /\ a \notin ProcessedIn(NoInterview) /\ b \notin ProcessedIn(NoInterview))
      => InterviewsOf(a) = InterviewsOf(b)

\* C38: removeFaceFromGroup(g, f) for an existing group g that does not
\* contain f leaves the members of every group and every face doc unchanged.
RemoveNonMemberFrame ==
  \A g \in DOMAIN groups : \A f \in Faces :
    ~Includes(groups[g].faceIds, f) =>
      LET after == RemoveFaceFromGroup(Store, g, f) IN
        /\ DOMAIN after.groups = DOMAIN groups
        /\ \A h \in DOMAIN groups : after.groups[h].faceIds = groups[h].faceIds
        /\ after.faceDocs = faceDocs

\* C39: for every group and every member whose face doc names the group, the
\* fileId of the face doc is one of the group's fileIds.
FileProvenance ==
  \A g \in DOMAIN groups : \A f \in Range(groups[g].faceIds) :
    (f \in DOMAIN faceDocs /\ faceDocs[f].groupId = g) =>
      faceDocs[f].fileId \in groups[g].fileIds

\* C40: for a groupId that does not exist, the add-face, remove-face and
\* delete-group requests leave the store unchanged and do not answer success,
\* and a merge with this group as secondary leaves the store unchanged.
MissingGroupRefused ==
  \A g \in GroupIds \ DOMAIN groups : \A f \in Faces :
    /\ AddFaceRoute(Store, g, f, ManualFile).store = Store
    /\ ~AddFaceRoute(Store, g, f, ManualFile).success
    /\ RemoveFaceRoute(Store, g, f).store = Store
    /\ ~RemoveFaceRoute(Store, g, f).success
    /\ DeleteGroupRoute(Store, g).store = Store
    /\ ~DeleteGroupRoute(Store, g).success
    /\ \A p \in DOMAIN groups : MergeGroups(Store, p, g) = Store

====
